---- MODULE Spec2Model ----
(***************************************************************************)
(* The interactive session manager of ruby-console-mcp                     *)
(* (src/src/rails-console.ts, RailsConsoleManager) as a state machine:     *)
(* the manager's fields, the child processes it spawned, the timers each   *)
(* start() armed and the position of each execute() call in its polling    *)
(* loop.  One action per API call, event handler or timer callback.        *)
(*                                                                         *)
(* Text.  A JavaScript string is a sequence of cells [c |-> ch, n |-> k]:  *)
(* k copies of the character ch.  Every character but the filler "#" has  *)
(* k = 1; a run of fillers is one cell, so that a buffer of a million      *)
(* characters is a short sequence.  The escape character is written "ESC". *)
(*                                                                         *)
(* Time.  The event loop runs one callback at a time, so every action is   *)
(* atomic.  Timer callbacks fire in any order the event loop allows; the   *)
(* polling loop of execute() keeps its own count of elapsed milliseconds   *)
(* exactly as the code does.                                               *)
(***************************************************************************)
EXTENDS Integers, Sequences, FiniteSets, TLC

(***************************************************************************)
(* Bounds of the model.                                                    *)
(***************************************************************************)
MaxCalls == 3       \* calls of start(), restart(), stop() and execute() in one behaviour
MaxStarts == 2      \* start()/restart() calls in one behaviour
MaxData == 2        \* data events in one behaviour
MaxExec == 1        \* execute() calls in one behaviour of Spec and SpecOutput
MaxOverlap == 2     \* execute() calls in one behaviour of SpecSession
MaxStream == 3      \* data events in one behaviour of SpecOutput
MaxText == 6       \* characters of a text given to the normalizer on its own

(***************************************************************************)
(* Program constants.                                                      *)
(***************************************************************************)
MAX_BUFFER_SIZE == 1000000
RETAINED_TAIL == 500000
RACKSH_MIN_LENGTH == 10

(***************************************************************************)
(* Strings.                                                                *)
(***************************************************************************)
Filler == "#"

Txt(t) == [i \in 1..Len(t) |-> [c |-> t[i], n |-> 1]]

Fill(k) == <<[c |-> Filler, n |-> k]>>

RECURSIVE StrLen(_)
StrLen(s) == IF s = <<>> THEN 0 ELSE Head(s).n + StrLen(Tail(s))

Concat(a, b) ==
    IF a = <<>> THEN b
    ELSE IF b = <<>> THEN a
    ELSE IF a[Len(a)].c = Filler /\ b[1].c = Filler
    THEN SubSeq(a, 1, Len(a) - 1) \o <<[c |-> Filler, n |-> a[Len(a)].n + b[1].n]>> \o Tail(b)
    ELSE a \o b

\* s.slice(k) for k >= 0: s without its first k characters.
RECURSIVE Slice(_, _)
Slice(s, k) ==
    IF k <= 0 \/ s = <<>> THEN s
    ELSE IF Head(s).n <= k THEN Slice(Tail(s), k - Head(s).n)
    ELSE <<[c |-> Head(s).c, n |-> Head(s).n - k]>> \o Tail(s)

\* s.slice(-k) for k > 0: the last k characters of s.
SliceFromEnd(s, k) == IF k >= StrLen(s) THEN s ELSE Slice(s, StrLen(s) - k)

\* s.includes(t), t a tuple of characters.
Includes(s, t) ==
    \E p \in 1..(Len(s) - Len(t) + 1) : SubSeq(s, p, p + Len(t) - 1) = Txt(t)

MinOf(S) == CHOOSE x \in S : \A y \in S : x <= y
MaxOf(S) == CHOOSE x \in S : \A y \in S : x >= y

(***************************************************************************)
(* Regular expressions as JavaScript runs them: an expression is a         *)
(* sequence of items, each a character class with a quantifier (greedy or  *)
(* lazy) or the end-of-input assertion.                                    *)
(***************************************************************************)
Item(S, negated, least, many) ==
    [cls |-> S, neg |-> negated, lo |-> least, inf |-> many, lazy |-> FALSE, eos |-> FALSE]
One(S) == Item(S, FALSE, 1, FALSE)
Opt(S) == Item(S, FALSE, 0, FALSE)
Star(S) == Item(S, FALSE, 0, TRUE)
Plus(S) == Item(S, FALSE, 1, TRUE)
NotOne(S) == Item(S, TRUE, 1, FALSE)
NotStar(S) == Item(S, TRUE, 0, TRUE)
NotPlus(S) == Item(S, TRUE, 1, TRUE)
Lazy(it) == [it EXCEPT !.lazy = TRUE]
EndOfInput == [Item({}, FALSE, 0, FALSE) EXCEPT !.eos = TRUE]
Lit(t) == [i \in 1..Len(t) |-> One({t[i]})]

InClass(it, ch) == (ch \in it.cls) # it.neg

\* The number of characters from position p on that item it can take.
Run(it, s, p) ==
    IF it.inf
    THEN CHOOSE m \in 0..(Len(s) - p + 1) :
            /\ \A i \in p..(p + m - 1) : InClass(it, s[i].c)
            /\ p + m <= Len(s) => ~InClass(it, s[p + m].c)
    ELSE IF p <= Len(s) /\ InClass(it, s[p].c) THEN 1 ELSE 0

\* Do the items from k on match at p?
RECURSIVE Matches(_, _, _, _)
Matches(items, k, s, p) ==
    IF k > Len(items) THEN TRUE
    ELSE IF items[k].eos THEN p = Len(s) + 1 /\ Matches(items, k + 1, s, p)
    ELSE \E j \in items[k].lo..Run(items[k], s, p) : Matches(items, k + 1, s, p + j)

\* The number of characters item k takes in the first match JavaScript's
\* backtracking finds at p: a greedy item takes the most with which the rest
\* still matches, a lazy item the fewest.
Taken(items, k, s, p) ==
    IF items[k].eos THEN 0
    ELSE IF items[k].lazy
    THEN MinOf({j \in items[k].lo..Run(items[k], s, p) : Matches(items, k + 1, s, p + j)})
    ELSE MaxOf({j \in items[k].lo..Run(items[k], s, p) : Matches(items, k + 1, s, p + j)})

\* The position after each item from k on in that match.
RECURSIVE Ends(_, _, _, _)
EndsFrom(items, k, s, q) == <<q>> \o Ends(items, k + 1, s, q)
Ends(items, k, s, p) ==
    IF k > Len(items) THEN <<>> ELSE EndsFrom(items, k, s, p + Taken(items, k, s, p))

\* The leftmost match at or after p: [ok, from, ends].
Found(items, s, hits) ==
    IF hits = {} THEN [ok |-> FALSE, from |-> 0, ends |-> <<>>]
    ELSE [ok |-> TRUE, from |-> MinOf(hits), ends |-> Ends(items, 1, s, MinOf(hits))]
Search(items, s, p) == Found(items, s, {q \in p..(Len(s) + 1) : Matches(items, 1, s, q)})

\* re.test(s).
Test(items, s) == \E p \in 1..(Len(s) + 1) : Matches(items, 1, s, p)

\* re.test(s) for an expression that starts with ^.
TestAtStart(items, s) == Matches(items, 1, s, 1)

\* s.replace(re, t) with the g flag, for an expression that matches no empty string.
RECURSIVE ReplaceAll(_, _, _)
Replaced(items, s, t, m) ==
    IF ~m.ok THEN s
    ELSE Concat(Concat(SubSeq(s, 1, m.from - 1), t),
                ReplaceAll(items, SubSeq(s, m.ends[Len(m.ends)], Len(s)), t))
ReplaceAll(items, s, t) == Replaced(items, s, t, Search(items, s, 1))

Digit == {"0", "1", "2", "3", "4", "5", "6", "7", "8", "9"}
Upper == {"A", "B", "C", "D", "E", "F", "G", "H", "I", "J", "K", "L", "M",
          "N", "O", "P", "Q", "R", "S", "T", "U", "V", "W", "X", "Y", "Z"}
Lower == {"a", "b", "c", "d", "e", "f", "g", "h", "i", "j", "k", "l", "m",
          "n", "o", "p", "q", "r", "s", "t", "u", "v", "w", "x", "y", "z"}
Letter == Upper \cup Lower
Word == Letter \cup Digit \cup {"_"}
Space == {" ", "\t", "\n", "\r", "\f"}
Control == {"ESC", "BEL", "\t", "\n", "\r", "\f"}
Newline == {"\n", "\r"}

\* s.split('\n')
RECURSIVE SplitLines(_)
SplitAt(s, i) == <<SubSeq(s, 1, i - 1)>> \o SplitLines(SubSeq(s, i + 1, Len(s)))
SplitLines(s) ==
    IF \E i \in 1..Len(s) : s[i].c = "\n"
    THEN SplitAt(s, MinOf({i \in 1..Len(s) : s[i].c = "\n"}))
    ELSE <<s>>

\* lines.join('\n')
RECURSIVE JoinLines(_)
JoinLines(ls) ==
    IF ls = <<>> THEN <<>>
    ELSE IF Len(ls) = 1 THEN ls[1]
    ELSE ls[1] \o Txt(<<"\n">>) \o JoinLines(Tail(ls))

\* s.trim()
RECURSIVE TrimStart(_)
TrimStart(s) == IF s # <<>> /\ Head(s).c \in Space THEN TrimStart(Tail(s)) ELSE s
RECURSIVE TrimEnd(_)
TrimEnd(s) ==
    IF s # <<>> /\ s[Len(s)].c \in Space THEN TrimEnd(SubSeq(s, 1, Len(s) - 1)) ELSE s
Trim(s) == TrimEnd(TrimStart(s))

\* parseInt(s, 10) of a string of digits, and String(n).
Digits == <<"0", "1", "2", "3", "4", "5", "6", "7", "8", "9">>
DigitValue(d) == CHOOSE v \in 0..9 : Digits[v + 1] = d
RECURSIVE ParseInt(_)
ParseInt(s) ==
    IF s = <<>> THEN 0 ELSE 10 * ParseInt(SubSeq(s, 1, Len(s) - 1)) + DigitValue(s[Len(s)].c)
RECURSIVE NumberToString(_)
NumberToString(v) ==
    IF v < 10 THEN Txt(<<Digits[v + 1]>>)
    ELSE NumberToString(v \div 10) \o Txt(<<Digits[(v % 10) + 1]>>)

(***************************************************************************)
(* The Output Normalizer, cleanTerminalOutput.                             *)
(***************************************************************************)
AnsiSgrRe == Lit(<<"ESC", "[">>) \o <<Star(Digit \cup {";"}), One(Letter)>>
AnsiModeRe == Lit(<<"ESC", "[", "?">>) \o <<Star(Digit), One(Letter)>>
AnsiCursorRe ==
    Lit(<<"ESC", "[">>) \o <<Star(Digit), One({"A", "B", "C", "D", "E", "F", "G"})>>

RailsPromptLineRe ==
    <<Plus(Word \cup {"-"})>> \o Lit(<<"(">>) \o <<NotPlus({")"})>> \o Lit(<<")", ">">>)
    \o <<Star(Space), EndOfInput>>
IrbPromptLineRe ==
    Lit(<<"i", "r", "b", "(">>) \o <<NotPlus({")"})>> \o Lit(<<")", ":">>)
    \o <<Plus(Digit), Opt({"*", ":"}), Opt({">"}), Star(Space), EndOfInput>>
SimplePromptLineRe ==
    Lit(<<":">>) \o <<Plus(Digit), Star(Space), Opt({">"}), Star(Space), EndOfInput>>
RackshPromptLineRe == Lit(<<">", ">">>) \o <<Star(Space), EndOfInput>>
BlankLineRe == <<Star(Space \cup Control), EndOfInput>>
ManyNewlinesRe == Lit(<<"\n", "\n">>) \o <<Plus({"\n"})>>

\* The filter of lines 116-129 on a trimmed line.
KeepTrimmed(trimmed) ==
    /\ ~TestAtStart(RailsPromptLineRe, trimmed)
    /\ ~TestAtStart(IrbPromptLineRe, trimmed)
    /\ ~TestAtStart(SimplePromptLineRe, trimmed)
    /\ ~TestAtStart(RackshPromptLineRe, trimmed)
    /\ ~TestAtStart(BlankLineRe, trimmed)
KeepCleanLine(line) == KeepTrimmed(Trim(line))

StripAnsi(output) ==
    ReplaceAll(AnsiCursorRe, ReplaceAll(AnsiModeRe, ReplaceAll(AnsiSgrRe, output, <<>>), <<>>), <<>>)

cleanTerminalOutput(output) ==
    Trim(ReplaceAll(ManyNewlinesRe,
                    JoinLines(SelectSeq(SplitLines(StripAnsi(output)), KeepCleanLine)),
                    Txt(<<"\n", "\n">>)))

(***************************************************************************)
(* The echo filter of execute, lines 202-212.                              *)
(***************************************************************************)
DropEcho(commandLines, trimmed) ==
    \/ \E i \in 1..Len(commandLines) : trimmed = Trim(commandLines[i])
    \/ TestAtStart(RailsPromptLineRe, trimmed)

RECURSIVE FilterEcho(_, _)
FilterEcho(commandLines, lines) ==
    IF lines = <<>> THEN <<>>
    ELSE (IF DropEcho(commandLines, Trim(Head(lines))) THEN <<>> ELSE <<Head(lines)>>)
         \o FilterEcho(commandLines, Tail(lines))

stripEcho(command, commandOutput) ==
    JoinLines(FilterEcho(SplitLines(command), SplitLines(commandOutput)))

(***************************************************************************)
(* The Error Extractor/Formatter: the detection of execute (lines 217-218) *)
(* and parseRailsError, formatError, formatRailsError.                     *)
(***************************************************************************)
Dot == NotOne(Newline)
DotStar == NotStar(Newline)
DotPlus == NotPlus(Newline)
ErrorT == <<"E", "r", "r", "o", "r">>
DetectedNames ==
    << <<"N", "a", "m", "e">> \o ErrorT,
       <<"S", "y", "n", "t", "a", "x">> \o ErrorT,
       <<"A", "r", "g", "u", "m", "e", "n", "t">> \o ErrorT,
       <<"N", "o", "M", "e", "t", "h", "o", "d">> \o ErrorT >>
ParsedNames ==
    DetectedNames \o << <<"R", "u", "n", "t", "i", "m", "e">> \o ErrorT,
                        <<"S", "t", "a", "n", "d", "a", "r", "d">> \o ErrorT >>

StructuredErrorRe ==
    Lit(<<"(">>) \o <<DotStar>> \o Lit(<<")", ":">>) \o <<Plus(Digit)>> \o Lit(<<":", "i", "n">>)
    \o <<DotStar>> \o Lit(<<":">>) \o <<DotStar>> \o Lit(<<"(">>) \o <<DotStar>>
    \o Lit(ErrorT \o <<")">>)

hasError(cleanOutput) ==
    \/ Test(StructuredErrorRe, cleanOutput)
    \/ \E i \in 1..Len(DetectedNames) : Includes(cleanOutput, DetectedNames[i])

Quote == {"'", "\""}
\* items:   1      2         3    4      5          6..8      9        10       11
\*          \(   ([^)]+)     \)   :    (\d+)        :in      \s+      ['"]   ([^'"]+)
\*         12     13    14      15
\*        ['"]    :     \s*    (.+?)
errorPattern ==
    Lit(<<"(">>) \o <<NotPlus({")"})>> \o Lit(<<")", ":">>) \o <<Plus(Digit)>>
    \o Lit(<<":", "i", "n">>) \o <<Plus(Space), One(Quote), NotPlus(Quote), One(Quote)>>
    \o Lit(<<":">>) \o <<Star(Space), Lazy(DotPlus)>>
\* (?:\s+\(([^)]+)\))? , tried once the lazy group holds its first character
errorKindSuffix == <<Plus(Space)>> \o Lit(<<"(">>) \o <<NotPlus({")"})>> \o Lit(<<")">>)

\* (Name1|Name2|...):\s*(.+) with the i-th name
simpleErrorPattern(i) == Lit(ParsedNames[i]) \o Lit(<<":">>) \o <<Star(Space), DotPlus>>

SimpleHit(s, p, i) == Matches(simpleErrorPattern(i), 1, s, p)
SimpleAt(s, p) == {i \in 1..Len(ParsedNames) : SimpleHit(s, p, i)}
SimpleGroups(s, i, e) ==
    [ok |-> TRUE, name |-> Txt(ParsedNames[i]),
     message |-> SubSeq(s, e[Len(e) - 1], e[Len(e)] - 1)]
SimpleFound(s, p, i) == SimpleGroups(s, i, Ends(simpleErrorPattern(i), 1, s, p))
SimpleFrom(s, at) ==
    IF at = {} THEN [ok |-> FALSE, name |-> <<>>, message |-> <<>>]
    ELSE SimpleFound(s, MinOf(at), MinOf(SimpleAt(s, MinOf(at))))
\* The leftmost match of the simple pattern: [ok, name, message].
SimpleSearch(s) == SimpleFrom(s, {p \in 1..Len(s) : SimpleAt(s, p) # {}})

FromWord == <<"f", "r", "o", "m">>
IndentedFromRe == <<Plus(Space)>> \o Lit(FromWord) \o <<Plus(Space)>>
RECURSIVE StackTrace(_, _)
StackTrace(stackLines, inStackTrace) ==
    IF stackLines = <<>> THEN <<>>
    ELSE IF \/ Includes(Head(stackLines), FromWord)
            \/ TestAtStart(IndentedFromRe, Head(stackLines))
    THEN <<Trim(Head(stackLines))>> \o StackTrace(Tail(stackLines), TRUE)
    ELSE IF /\ inStackTrace
            /\ Trim(Head(stackLines)) # <<>>
            /\ ~TestAtStart(Lit(<<"(">>), Head(stackLines))
    THEN <<Trim(Head(stackLines))>> \o StackTrace(Tail(stackLines), inStackTrace)
    ELSE StackTrace(Tail(stackLines), inStackTrace)

NoParse == [found |-> FALSE, type |-> <<>>, message |-> <<>>, file |-> <<>>,
            line |-> 0, method |-> <<>>, stackTrace |-> <<>>]

SimpleParse(simple) ==
    IF simple.ok
    THEN [NoParse EXCEPT !.found = TRUE, !.type = simple.name, !.message = Trim(simple.message)]
    ELSE NoParse

\* Lines 38-62, from the groups of the match: e the position after each item
\* of errorPattern, kind the match of the optional suffix.
ErrorKind(output, kind) ==
    IF kind.ok THEN SubSeq(output, kind.ends[2], kind.ends[3] - 1) ELSE <<>>
StructuredRecord(output, file, lineStr, method, message, errorType) ==
    [found |-> TRUE,
     type |-> IF errorType # <<>> THEN errorType ELSE file,
     message |-> Trim(message),
     file |-> file,
     line |-> ParseInt(lineStr),
     method |-> method,
     stackTrace |-> StackTrace(SplitLines(output), FALSE)]
StructuredParse(output, e) ==
    StructuredRecord(output,
                     SubSeq(output, e[1], e[2] - 1),
                     SubSeq(output, e[4], e[5] - 1),
                     SubSeq(output, e[10], e[11] - 1),
                     SubSeq(output, e[14], e[15] - 1),
                     ErrorKind(output, Search(errorKindSuffix, output, e[15])))

Parsed(output, m) ==
    IF ~m.ok THEN SimpleParse(SimpleSearch(output)) ELSE StructuredParse(output, m.ends)
parseRailsError(output) == Parsed(output, Search(errorPattern, output, 1))

RECURSIVE IndentedLines(_)
IndentedLines(ls) ==
    IF ls = <<>> THEN <<>> ELSE <<Txt(<<" ", " ">>) \o Head(ls)>> \o IndentedLines(Tail(ls))

formatError(error) ==
    Txt(<<"CROSS", " ">>) \o error.type \o Txt(<<"\n", "\n">>)
    \o (IF error.message # <<>>
        THEN Txt(<<"M", "e", "s", "s", "a", "g", "e", ":", " ">>) \o error.message \o Txt(<<"\n">>)
        ELSE <<>>)
    \o (IF error.file # <<>> /\ error.line # 0
        THEN Txt(<<"L", "o", "c", "a", "t", "i", "o", "n", ":", " ">>) \o error.file
             \o Txt(<<":">>) \o NumberToString(error.line)
             \o (IF error.method # <<>>
                 THEN Txt(<<" ", "i", "n", " ", "'">>) \o error.method \o Txt(<<"'">>)
                 ELSE <<>>)
             \o Txt(<<"\n">>)
        ELSE <<>>)
    \o (IF error.stackTrace # <<>>
        THEN Txt(<<"\n", "S", "t", "a", "c", "k", " ", "T", "r", "a", "c", "e", ":", "\n">>)
             \o JoinLines(IndentedLines(error.stackTrace))
        ELSE <<>>)

Formatted(output, parsed) == IF parsed.found THEN formatError(parsed) ELSE output
formatRailsError(output) == Formatted(output, parseRailsError(output))

(***************************************************************************)
(* The Readiness Detector: the three tests of the checkReady callback.     *)
(***************************************************************************)
IrbPromptRe ==
    Lit(<<"i", "r", "b", "(">>) \o <<NotPlus({")"})>> \o Lit(<<")", ":">>)
    \o <<Plus(Digit), Opt({"*", ":"})>> \o Lit(<<">">>)

RailsBanner(buf) ==
    /\ Includes(buf, <<"L", "o", "a", "d", "i", "n", "g", " ">>)
    /\ Includes(buf, <<" ", "e", "n", "v", "i", "r", "o", "n", "m", "e", "n", "t">>)

IrbPrompt(buf) == Test(IrbPromptRe, buf)

RackshPrompt(buf) == Includes(buf, <<">", ">">>) /\ StrLen(buf) > RACKSH_MIN_LENGTH

checkReady(buf) == RailsBanner(buf) \/ IrbPrompt(buf) \/ RackshPrompt(buf)

(***************************************************************************)
(* The data handler's new buffer.                                          *)
(***************************************************************************)
NotTruncated(b) == b
Truncated(b) == IF StrLen(b) > MAX_BUFFER_SIZE THEN SliceFromEnd(b, RETAINED_TAIL) ELSE b
onDataReplacing(buf, data) == Truncated(data)
onData(buf, data) == Truncated(Concat(buf, data))

(***************************************************************************)
(* The annotations and the result of execute, lines 195-236.               *)
(***************************************************************************)
CHECK_INTERVAL == 100
STABILIZE_AFTER == 1000
QUIET_PERIOD == 500

TimeoutWarning(maxWaitTime) ==
    Txt(<<"WARNING_SIGN", "VS16", " ", "C", "o", "m", "m", "a", "n", "d", " ", "e", "x",
          "e", "c", "u", "t", "i", "o", "n", " ", "e", "x", "c", "e", "e", "d", "e",
          "d", " ", "t", "i", "m", "e", "o", "u", "t", " ", "(">>)
    \o NumberToString(maxWaitTime)
    \o Txt(<<"m", "s", ")", ".", " ", "P", "a", "r", "t", "i", "a", "l", " ", "o", "u", "t",
             "p", "u", "t", ":", "\n", "\n">>)

SlowAdvisory(elapsed, maxWaitTime) ==
    Txt(<<"STOPWATCH", "VS16", " ", "C", "o", "m", "m", "a", "n", "d", " ", "t", "o", "o",
          "k", " ">>)
    \o NumberToString(elapsed)
    \o Txt(<<"m", "s", " ", "t", "o", " ", "c", "o", "m", "p", "l", "e", "t", "e", " ", "(",
             "t", "i", "m", "e", "o", "u", "t", ":", " ">>)
    \o NumberToString(maxWaitTime)
    \o Txt(<<"m", "s", ")", "\n", "\n">>)

NoOutput == Txt(<<"(", "n", "o", " ", "o", "u", "t", "p", "u", "t", ")">>)

Undefined == "undefined"
NotReadyError == "Console is not ready"
RailsError == "Rails error detected in output"
TimeoutError == "Command execution timeout"
WriteError == "write failed"

NotReadyResult == [success |-> FALSE, output |-> <<>>, error |-> NotReadyError]
FaultWithoutMessage(message) == [success |-> FALSE, output |-> <<>>, error |-> Undefined]
FaultResult(message) == [success |-> FALSE, output |-> <<>>, error |-> message]

\* Lines 199-214: the text the result is derived from.
cleanOutputOf(command, buf, originalBufferLength) ==
    cleanTerminalOutput(stripEcho(command, Slice(buf, originalBufferLength)))

\* Line 196.
timedOutCountingQuiet(elapsed, maxWaitTime) == elapsed + QUIET_PERIOD >= maxWaitTime
timedOutOf(elapsed, maxWaitTime) == elapsed >= maxWaitTime

\* Line 233.
successIgnoringTimeout(detected, timedOut) == ~detected
successOf(detected, timedOut) == ~detected /\ ~timedOut

\* Line 235.
errorTimeoutFirst(detected, timedOut) ==
    IF timedOut THEN TimeoutError ELSE IF detected THEN RailsError ELSE Undefined
errorOf(detected, timedOut) ==
    IF detected THEN RailsError ELSE IF timedOut THEN TimeoutError ELSE Undefined

\* Lines 220-230.
annotate(body, timedOut, warningShown, elapsed, maxWaitTime) ==
    IF timedOut THEN TimeoutWarning(maxWaitTime) \o body
    ELSE IF warningShown THEN SlowAdvisory(elapsed, maxWaitTime) \o body
    ELSE body

\* Line 234.
outputOf(text) == IF text # <<>> THEN text ELSE NoOutput

\* Lines 232-236, with what the result was made from.
Outcome(body, detected, timedOut, warningShown, elapsed, maxWaitTime) ==
    [result |-> [success |-> successOf(detected, timedOut),
                 output |-> outputOf(annotate(body, timedOut, warningShown, elapsed, maxWaitTime)),
                 error |-> errorOf(detected, timedOut)],
     timedOut |-> timedOut,
     detected |-> detected,
     body |-> body]

\* Lines 216-223.
Detected(cleanOutput, detected, elapsed, warningShown, maxWaitTime) ==
    Outcome(IF detected THEN formatRailsError(cleanOutput) ELSE cleanOutput,
            detected, timedOutOf(elapsed, maxWaitTime), warningShown, elapsed, maxWaitTime)

Cleaned(cleanOutput, elapsed, warningShown, maxWaitTime) ==
    Detected(cleanOutput, hasError(cleanOutput), elapsed, warningShown, maxWaitTime)

\* Lines 195-236.
outcomeOf(command, buf, originalBufferLength, elapsed, warningShown, maxWaitTime) ==
    Cleaned(cleanOutputOf(command, buf, originalBufferLength), elapsed, warningShown,
            maxWaitTime)

(***************************************************************************)
(* What a child can print, in chunks, and what a caller can send.          *)
(***************************************************************************)
ReplyChunk ==
    Txt(<<"1", "+", "1", "\n", "=", ">", " ", "2", "\n",
          "i", "r", "b", "(", "m", ")", ":", "1", ">", " ">>)
ErrorChunk == Txt(<<"N", "a", "m", "e", "E", "r", "r", "o", "r", ":", " ", "a", "\n">>)
Chunks == {ReplyChunk, ErrorChunk}
Commands == {Txt(<<"1", "+", "1">>)}
Timeouts == {900, 1200}

(***************************************************************************)
(* State.                                                                  *)
(***************************************************************************)
VARIABLES
    process,       \* this.process: 0 for null, else the child it refers to
    isReady,       \* this.isReady
    outputBuffer,  \* this.outputBuffer
    timeout,       \* this.config.timeout
    child,         \* child[c]: "unborn", "alive", "killed" (exit pending), "gone"
    writes,        \* writes[c]: the execute calls whose command was written to child c
    starts,        \* starts[s]: the promise and the two timers of the s-th start()
    execs,         \* execs[e]: the locals and the result of the e-th execute()
    readySince,    \* history: a readiness transition, and no stop()/exit since
    nCalls,        \* history: number of calls so far
    nData,         \* history: number of data events so far
    given,         \* the argument of a function applied on its own, <<>> if none
    got            \* the value of that function, <<>> until it has been applied

vars == <<process, isReady, outputBuffer, timeout, child, writes, starts, execs,
          readySince, nCalls, nData, given, got>>

\* What no event handler and no timer callback touches.
config == <<timeout, nCalls, given, got>>

\* What no call to the manager touches.
fixed == <<timeout, given, got>>

\* The ready query, lines 23-25.
ready == isReady

StartIds == 1..MaxStarts
ExecIds == 1..MaxOverlap

\* heard is history: the child of this start() has emitted output while
\* the start() was polling.
NoStart == [settled |-> "none", interval |-> FALSE, timer |-> FALSE,
            polled |-> FALSE, via |-> "none", heard |-> FALSE]

\* pc: "idle" (not called), "sleep" (line 170), "quiet" (line 187), "done".
\* The fields from target on are history: the child written to, the real
\* time since the write, how the loop ended, how the output arrived, and
\* what the data events have delivered since the write (kept while the call
\* is polling), and whether an earlier call was polling at the write.
NoExec == [pc |-> "idle", command |-> <<>>, originalBufferLength |-> 0, elapsed |-> 0,
           outputStarted |-> FALSE, lastBufferLength |-> 0, warningShown |-> FALSE,
           beforeLength |-> 0, result |-> NotReadyResult,
           target |-> 0, wall |-> 0, broke |-> FALSE, timedOut |-> FALSE,
           detected |-> FALSE, body |-> <<>>,
           arrivals |-> 0, quietInTime |-> FALSE, reach |-> 0, steady |-> TRUE,
           disturbed |-> FALSE, emitted |-> <<>>, overlaps |-> FALSE]

Init ==
    /\ process = 0
    /\ isReady = FALSE
    /\ outputBuffer = <<>>
    /\ timeout \in Timeouts
    /\ child = [c \in StartIds |-> "unborn"]
    /\ writes = [c \in StartIds |-> <<>>]
    /\ starts = [s \in StartIds |-> NoStart]
    /\ execs = [e \in ExecIds |-> NoExec]
    /\ readySince = FALSE
    /\ nCalls = 0
    /\ nData = 0
    /\ given = <<>>
    /\ got = <<>>

Called == {s \in StartIds : starts[s].settled # "none"}
NextStart == Cardinality(Called) + 1
NextExec == Cardinality({e \in ExecIds : execs[e].pc # "idle"}) + 1
InFlight(x) == x.pc \in {"sleep", "quiet"}
Min(a, b) == IF a <= b THEN a ELSE b

\* process.kill() of stop(): the state of the children after killing child p.
Kill(ch, p) == [ch EXCEPT ![p] = IF ch[p] = "alive" THEN "killed" ELSE ch[p]]

(***************************************************************************)
(* start(), lines 31-103: spawn, register the handlers, arm both timers.   *)
(* The s-th call spawns child s.                                           *)
(***************************************************************************)
Spawned(ch, sts, s, how) ==
    /\ child' = [ch EXCEPT ![s] = "alive"]
    /\ starts' = [sts EXCEPT ![s] = [settled |-> "pending", interval |-> TRUE,
                                     timer |-> TRUE, polled |-> FALSE, via |-> how,
                                     heard |-> FALSE]]
    /\ process' = s

start ==
    /\ nCalls < MaxCalls
    /\ nCalls' = nCalls + 1
    /\ UNCHANGED fixed
    /\ NextStart \in StartIds
    /\ Spawned(child, starts, NextStart, "start")
    /\ UNCHANGED <<isReady, outputBuffer, writes, execs, readySince, nData>>

\* pty.spawn throws: the catch of line 99 rejects, nothing else has happened.
startSpawnError ==
    /\ nCalls < MaxCalls
    /\ nCalls' = nCalls + 1
    /\ UNCHANGED fixed
    /\ NextStart \in StartIds
    /\ starts' = [starts EXCEPT ![NextStart] =
                     [NoStart EXCEPT !.settled = "rejected", !.via = "start"]]
    /\ UNCHANGED <<process, isReady, outputBuffer, child, writes, execs,
                   readySince, nData>>

(***************************************************************************)
(* The data handler of child c, lines 47-54.  History: for every execute   *)
(* in flight, the arrival falls between now and the end of its current     *)
(* wait; reach is the latest moment the arrival can have happened with     *)
(* every gap between arrivals so far shorter than the quiet period.        *)
(***************************************************************************)
WaitEnd(x) == x.wall + (IF x.pc = "sleep" THEN CHECK_INTERVAL ELSE QUIET_PERIOD)
Reach(x) == Min(WaitEnd(x), x.reach + QUIET_PERIOD)
Arrived(x, chunk, truncated) ==
    IF ~InFlight(x) THEN x
    ELSE [x EXCEPT !.emitted = Concat(@, chunk),
                   !.arrivals = Min(@ + 1, 2),
                   !.quietInTime = WaitEnd(x) + QUIET_PERIOD <= timeout,
                   !.steady = @ /\ x.wall < Reach(x),
                   !.reach = IF x.steady /\ x.wall < Reach(x) THEN Reach(x) ELSE 0,
                   !.disturbed = @ \/ truncated]

Received(c, chunk) ==
    /\ UNCHANGED config
    /\ child[c] \in {"alive", "killed"}
    /\ nData' = nData + 1
    /\ outputBuffer' = onData(outputBuffer, chunk)
    /\ execs' = [e \in ExecIds |->
                    Arrived(execs[e], chunk, outputBuffer' # Concat(outputBuffer, chunk))]
    /\ starts' = [starts EXCEPT ![c].heard = starts[c].interval]
    /\ UNCHANGED <<process, isReady, child, writes, readySince>>

data(c, chunk) ==
    /\ nData < MaxData
    /\ Received(c, chunk)

(***************************************************************************)
(* The exit handler of child c, lines 56-58.                               *)
(***************************************************************************)
onExit(c) ==
    /\ UNCHANGED config
    /\ child[c] \in {"alive", "killed"}
    /\ child' = [child EXCEPT ![c] = "gone"]
    /\ isReady' = FALSE
    /\ readySince' = FALSE
    /\ UNCHANGED <<process, outputBuffer, writes, starts, execs, nData>>

(***************************************************************************)
(* One tick of the checkReady interval of start s, lines 61-89.            *)
(***************************************************************************)
\* Lines 66, 75, 84: the startup output is dropped.
startupKept(buf) == buf
startupCleared(buf) == <<>>

pollTick(s) ==
    /\ UNCHANGED config
    /\ starts[s].interval
    /\ IF checkReady(outputBuffer)
       THEN /\ starts' = [starts EXCEPT ![s].interval = FALSE,
                                         ![s].polled = TRUE,
                                         ![s].heard = FALSE,
                                         ![s].settled = "resolved"]
            /\ isReady' = TRUE
            /\ outputBuffer' = startupCleared(outputBuffer)
            /\ readySince' = TRUE
            /\ execs' = [e \in ExecIds |->
                            IF InFlight(execs[e]) THEN [execs[e] EXCEPT !.disturbed = TRUE]
                            ELSE execs[e]]
       ELSE /\ starts' = [starts EXCEPT ![s].polled = TRUE]
            /\ UNCHANGED <<isReady, outputBuffer, readySince, execs>>
    /\ UNCHANGED <<process, child, writes, nData>>

(***************************************************************************)
(* stop(), lines 250-256.                                                  *)
(***************************************************************************)
stopLeavesReady ==
    /\ nCalls < MaxCalls
    /\ nCalls' = nCalls + 1
    /\ UNCHANGED fixed
    /\ IF process # 0
       THEN /\ child' = Kill(child, process)
            /\ process' = 0
       ELSE UNCHANGED <<child, process>>
    /\ readySince' = FALSE
    /\ UNCHANGED <<isReady, outputBuffer, writes, starts, execs, nData>>

stop ==
    /\ nCalls < MaxCalls
    /\ nCalls' = nCalls + 1
    /\ UNCHANGED fixed
    /\ IF process # 0
       THEN /\ child' = Kill(child, process)
            /\ process' = 0
            /\ isReady' = FALSE
       ELSE UNCHANGED <<child, process, isReady>>
    /\ readySince' = FALSE
    /\ UNCHANGED <<outputBuffer, writes, starts, execs, nData>>

(***************************************************************************)
(* The startup timeout of start s, lines 92-98.  The interval was armed    *)
(* first and is due 29.9 s earlier, so it has ticked at least once unless  *)
(* it was cleared.                                                         *)
(***************************************************************************)
startupTimeout(s) ==
    /\ UNCHANGED config
    /\ starts[s].timer
    /\ starts[s].interval => starts[s].polled
    /\ IF ~isReady
       THEN /\ starts' = [starts EXCEPT ![s].timer = FALSE,
                                         ![s].interval = FALSE,
                                         ![s].heard = FALSE,
                                         ![s].settled = IF @ = "pending" THEN "rejected" ELSE @]
            /\ IF process # 0
               THEN /\ child' = Kill(child, process)
                    /\ process' = 0
                    /\ isReady' = FALSE
               ELSE UNCHANGED <<child, process, isReady>>
            /\ readySince' = FALSE
       ELSE /\ starts' = [starts EXCEPT ![s].timer = FALSE, ![s].interval = FALSE,
                                         ![s].heard = FALSE]
            /\ UNCHANGED <<child, process, isReady, readySince>>
    /\ UNCHANGED <<outputBuffer, writes, execs, nData>>

(***************************************************************************)
(* restart(), lines 261-264: stop(), then start().                         *)
(***************************************************************************)
restart ==
    /\ nCalls < MaxCalls
    /\ nCalls' = nCalls + 1
    /\ UNCHANGED fixed
    /\ NextStart \in StartIds
    /\ Spawned(IF process # 0 THEN Kill(child, process) ELSE child,
               starts, NextStart, "restart")
    /\ isReady' = IF process # 0 THEN FALSE ELSE isReady
    /\ readySince' = FALSE
    /\ UNCHANGED <<outputBuffer, writes, execs, nData>>

(***************************************************************************)
(* execute(command), lines 145-245, in the steps between its awaits.       *)
(***************************************************************************)
\* Lines 195-236, once the loop has ended; the locals die with the call.
Returned(x, byBreak, o) ==
    [x EXCEPT !.pc = "done",
              !.result = o.result,
              !.lastBufferLength = 0,
              !.beforeLength = 0,
              !.broke = byBreak,
              !.timedOut = o.timedOut,
              !.detected = o.detected,
              !.body = o.body,
              !.steady = x.steady /\ x.arrivals >= 1 /\ x.wall - x.reach < QUIET_PERIOD,
              !.reach = 0,
              !.emitted = <<>>]

Finished(x, byBreak) ==
    Returned(x, byBreak,
             outcomeOf(x.command, outputBuffer, x.originalBufferLength, x.elapsed,
                       x.warningShown, timeout))

\* Line 146.
notReadyHandleOnly == process = 0
notReadyOrBusy == ~isReady \/ process = 0 \/ \E o \in ExecIds : InFlight(execs[o])
notReady == ~isReady \/ process = 0

\* Lines 145-168: the guard, the write, and the first sleep.
execute(command) ==
    /\ nCalls < MaxCalls
    /\ nCalls' = nCalls + 1
    /\ UNCHANGED fixed
    /\ NextExec \in ExecIds
    /\ IF notReady
       THEN /\ execs' = [execs EXCEPT ![NextExec] =
                            [NoExec EXCEPT !.pc = "done", !.command = command,
                                           !.result = NotReadyResult]]
            /\ UNCHANGED writes
       ELSE /\ writes' = [writes EXCEPT ![process] = Append(@, NextExec)]
            /\ execs' = [execs EXCEPT ![NextExec] =
                            [NoExec EXCEPT !.pc = "sleep",
                                           !.command = command,
                                           !.target = process,
                                           !.overlaps = \E o \in ExecIds : InFlight(execs[o]),
                                           !.originalBufferLength = StrLen(outputBuffer),
                                           !.lastBufferLength = StrLen(outputBuffer)]]
    /\ UNCHANGED <<process, isReady, outputBuffer, child, starts, readySince, nData>>

\* Lines 158 and 238-244: the write to a child that is no longer there throws.
executeFault(command) ==
    /\ nCalls < MaxCalls
    /\ nCalls' = nCalls + 1
    /\ UNCHANGED fixed
    /\ NextExec \in ExecIds
    /\ ~notReady
    /\ child[process] # "alive"
    /\ execs' = [execs EXCEPT ![NextExec] =
                    [NoExec EXCEPT !.pc = "done", !.command = command, !.target = process,
                                   !.result = FaultResult(WriteError)]]
    /\ UNCHANGED <<process, isReady, outputBuffer, child, writes, starts,
                   readySince, nData>>

\* Lines 169-185: the end of a 100 ms sleep.
PolledStartingOver(x, currentBufferLength) ==
    [x EXCEPT !.elapsed = (@ + CHECK_INTERVAL) % timeout,
              !.wall = (@ + CHECK_INTERVAL) % timeout,
              !.warningShown = @ \/ 2 * (x.elapsed + CHECK_INTERVAL) > timeout,
              !.outputStarted = @ \/ currentBufferLength > x.lastBufferLength,
              !.lastBufferLength = IF currentBufferLength > @ THEN currentBufferLength ELSE @]

Polled(x, currentBufferLength) ==
    [x EXCEPT !.elapsed = @ + CHECK_INTERVAL,
              !.wall = @ + CHECK_INTERVAL,
              !.warningShown = @ \/ 2 * (x.elapsed + CHECK_INTERVAL) > timeout,
              !.outputStarted = @ \/ currentBufferLength > x.lastBufferLength,
              !.lastBufferLength = IF currentBufferLength > @ THEN currentBufferLength ELSE @]

AfterPoll(y, currentBufferLength) ==
    IF y.outputStarted /\ y.elapsed > STABILIZE_AFTER
    THEN [y EXCEPT !.pc = "quiet", !.beforeLength = currentBufferLength]
    ELSE IF y.elapsed < timeout THEN y
    ELSE Finished(y, FALSE)

execPoll(e) ==
    /\ UNCHANGED config
    /\ execs[e].pc = "sleep"
    /\ execs' = [execs EXCEPT ![e] =
                    AfterPoll(Polled(@, StrLen(outputBuffer)), StrLen(outputBuffer))]
    /\ UNCHANGED <<process, isReady, outputBuffer, child, writes, starts,
                   readySince, nData>>

\* Lines 187-192: the end of the 500 ms quiet period.
AfterQuiet(y) ==
    IF StrLen(outputBuffer) = y.beforeLength THEN Finished(y, TRUE)
    ELSE IF y.elapsed < timeout THEN [y EXCEPT !.pc = "sleep"]
    ELSE Finished(y, FALSE)

execQuiet(e) ==
    /\ UNCHANGED config
    /\ execs[e].pc = "quiet"
    /\ execs' = [execs EXCEPT ![e] = AfterQuiet([@ EXCEPT !.wall = @ + QUIET_PERIOD])]
    /\ UNCHANGED <<process, isReady, outputBuffer, child, writes, starts,
                   readySince, nData>>

Next ==
    \/ start
    \/ startSpawnError
    \/ restart
    \/ stop
    \/ \E c \in StartIds : \E chunk \in Chunks : data(c, chunk)
    \/ \E c \in StartIds : onExit(c)
    \/ \E s \in StartIds : pollTick(s)
    \/ \E s \in StartIds : startupTimeout(s)
    \/ \E command \in Commands : NextExec <= MaxExec /\ execute(command)
    \/ \E command \in Commands : NextExec <= MaxExec /\ executeFault(command)
    \/ \E e \in ExecIds : execPoll(e)
    \/ \E e \in ExecIds : execQuiet(e)

Spec == Init /\ [][Next]_vars

(***************************************************************************)
(* One session and what its child prints: more data events than Spec has,  *)
(* with the numbered prompt of irb and output long enough to overflow the  *)
(* buffer, and no stop(), restart() or exit.                               *)
(***************************************************************************)
NumberedPromptText ==
    <<"i", "r", "b", "(", "m", "a", "i", "n", ")", ":", "0", "0", "1", ":", "0", ">", " ">>
NumberedPrompt == Txt(NumberedPromptText)
LongOutput == Fill(600000)
StreamChunks == {ReplyChunk, NumberedPrompt, LongOutput}

stream(c, chunk) ==
    /\ nData < MaxStream
    /\ Received(c, chunk)

NextOutput ==
    \/ start
    \/ \E c \in StartIds : \E chunk \in StreamChunks : stream(c, chunk)
    \/ \E s \in StartIds : pollTick(s)
    \/ \E command \in Commands : NextExec <= MaxExec /\ execute(command)
    \/ \E e \in ExecIds : execPoll(e)
    \/ \E e \in ExecIds : execQuiet(e)

SpecOutput == Init /\ [][NextOutput]_vars

(***************************************************************************)
(* One session and the execute() calls of its caller, up to two of them,   *)
(* one after the other or overlapping, with a timeout short enough to run  *)
(* out and one long enough for a command to finish in its first half.      *)
(***************************************************************************)
SessionTimeouts == {900, 3400}

InitSession ==
    /\ process = 0
    /\ isReady = FALSE
    /\ outputBuffer = <<>>
    /\ timeout \in SessionTimeouts
    /\ child = [c \in StartIds |-> "unborn"]
    /\ writes = [c \in StartIds |-> <<>>]
    /\ starts = [s \in StartIds |-> NoStart]
    /\ execs = [e \in ExecIds |-> NoExec]
    /\ readySince = FALSE
    /\ nCalls = 0
    /\ nData = 0
    /\ given = <<>>
    /\ got = <<>>

NextSession ==
    \/ NextStart = 1 /\ start
    \/ \E c \in StartIds : stream(c, ReplyChunk)
    \/ \E s \in StartIds : pollTick(s)
    \/ \E command \in Commands : execute(command)
    \/ \E e \in ExecIds : execPoll(e)
    \/ \E e \in ExecIds : execQuiet(e)

SpecSession == InitSession /\ [][NextSession]_vars

(***************************************************************************)
(* One execute() call against every behaviour of the child: silent,        *)
(* printing during every wait of the call for as long as it polls,         *)
(* exiting, or stopped.  The sleeps of the call are timers, which fire:     *)
(* weak fairness of execPoll and execQuiet, each enabled exactly while the *)
(* call is in that sleep, written with that guard in the place of ENABLED. *)
(***************************************************************************)
\* A data event during a wait of a polling call in which nothing has
\* arrived yet; the child prints one character at a time.
flood(c, chunk) ==
    /\ \E e \in ExecIds :
          /\ InFlight(execs[e])
          /\ StrLen(outputBuffer) = IF execs[e].pc = "sleep" THEN execs[e].lastBufferLength
                                     ELSE execs[e].beforeLength
    /\ Received(c, chunk)

NextPolling ==
    \/ NextStart = 1 /\ start
    \/ stop
    \/ \E c \in StartIds : data(c, ReplyChunk)
    \/ \E c \in StartIds : flood(c, Fill(1))
    \/ \E c \in StartIds : onExit(c)
    \/ \E s \in StartIds : pollTick(s)
    \/ \E command \in Commands : NextExec <= MaxExec /\ execute(command)
    \/ \E e \in ExecIds : execPoll(e)
    \/ \E e \in ExecIds : execQuiet(e)

SpecPolling ==
    /\ Init
    /\ [][NextPolling]_vars
    /\ \A e \in ExecIds :
          /\ []<>(execs[e].pc # "sleep") \/ []<><<execPoll(e)>>_vars
          /\ []<>(execs[e].pc # "quiet") \/ []<><<execQuiet(e)>>_vars

(***************************************************************************)
(* The connection tools of the server, part_001 lines 266-347, over the    *)
(* one manager of line 20, with the events of its children.                *)
(***************************************************************************)
\* A tool call that finds nothing to do: lines 281-292 and 325-334.
NothingToDo ==
    /\ nCalls < MaxCalls
    /\ nCalls' = nCalls + 1
    /\ UNCHANGED <<process, isReady, outputBuffer, timeout, child, writes, starts,
                   execs, readySince, nData, given, got>>

\* Lines 266-310: start() unless the manager is ready.
connect_ruby_console ==
    IF ~ready THEN start \/ startSpawnError ELSE NothingToDo

\* Lines 312-347: stop() if the manager is ready.
disconnect_ruby_console ==
    IF ready THEN stop ELSE NothingToDo

NextTools ==
    \/ connect_ruby_console
    \/ disconnect_ruby_console
    \/ \E c \in StartIds : \E chunk \in Chunks : data(c, chunk)
    \/ \E c \in StartIds : onExit(c)
    \/ \E s \in StartIds : pollTick(s)
    \/ \E s \in StartIds : startupTimeout(s)

SpecTools == Init /\ [][NextTools]_vars

(***************************************************************************)
(* The functions of the program applied on their own to a given argument:  *)
(* the classification of the health check (part_001 lines 233-246), the    *)
(* Output Normalizer and the error parser.                                 *)
(***************************************************************************)
\* part_001 lines 233-246: status and isError of the health check.
healthStatus(success, responseTime) ==
    IF ~success THEN <<"UNHEALTHY", TRUE>>
    ELSE IF responseTime > 5000 THEN <<"DEGRADED", FALSE>>
    ELSE IF responseTime > 10000 THEN <<"UNHEALTHY", TRUE>>
    ELSE <<"HEALTHY", FALSE>>

\* Response times in ms: every quarter second up to 12 s, and the
\* milliseconds either side of the two thresholds.
ResponseTimes == {250 * k : k \in 0..48} \cup {4999, 5001, 9999, 10001}

\* The characters of the texts given to the normalizer.
Alphabet == {"ESC", "[", "0", "m", "\n", ">"}

\* The output of a command that raised: (C):N:in 'M': MSG, followed by
\* " (KIND)" if there is a kind.
ErrorLine(C, N, M, MSG, KIND) ==
    Txt(<<"(">> \o C \o <<")", ":">> \o N \o <<":", "i", "n", " ", "'">> \o M
        \o <<"'", ":", " ">> \o MSG
        \o (IF KIND = <<>> THEN <<>> ELSE <<" ", "(">> \o KIND \o <<")">>))

ErrorInputs ==
    {<<"parseRailsError", C, N, M, MSG, KIND>> :
        C \in {<<"E">>, <<"e", "v", "a", "l">>},
        N \in {<<"4">>, <<"1", "2">>},
        M \in {<<"m">>, <<"<", "m", ">">>},
        MSG \in {<<"x">>, <<"n", "o">>, <<"n", "o", " ", "x">>, <<"b", "a", "d", " ">>},
        KIND \in {<<>>, <<"K">>, <<"N", "a", "m", "e", "E", "r", "r", "o", "r">>}}

InitFunctions ==
    /\ process = 0
    /\ isReady = FALSE
    /\ outputBuffer = <<>>
    /\ timeout \in Timeouts
    /\ child = [c \in StartIds |-> "unborn"]
    /\ writes = [c \in StartIds |-> <<>>]
    /\ starts = [s \in StartIds |-> NoStart]
    /\ execs = [e \in ExecIds |-> NoExec]
    /\ readySince = FALSE
    /\ nCalls = 0
    /\ nData = 0
    /\ \/ \E success \in BOOLEAN : \E responseTime \in ResponseTimes :
              given = <<"healthStatus", success, responseTime>>
       \/ \E n \in 0..MaxText : \E text \in [1..n -> Alphabet] :
              given = <<"cleanTerminalOutput", text>>
       \/ given \in ErrorInputs
       \/ \E i \in 1..Len(ParsedNames) :
              given = <<"outcomeOf", Txt(ParsedNames[i] \o <<":", " ", "a">>)>>
       \/ \E i \in ErrorInputs :
              given = <<"outcomeOf", ErrorLine(i[2], i[3], i[4], i[5], i[6])>>
    /\ got = <<>>

\* A function applied to the given argument; got is a tuple of its values.
Apply(f, values) ==
    /\ given[1] = f
    /\ got = <<>>
    /\ got' = values
    /\ UNCHANGED <<process, isReady, outputBuffer, timeout, child, writes, starts,
                   execs, readySince, nCalls, nData, given>>

applyHealthStatus ==
    Apply("healthStatus", healthStatus(given[2], given[3]))

\* The normalizer applied once, and applied again to what it returned.
applyCleanTerminalOutput ==
    Apply("cleanTerminalOutput",
          <<cleanTerminalOutput(Txt(given[2])),
            cleanTerminalOutput(cleanTerminalOutput(Txt(given[2])))>>)

applyParseRailsError ==
    Apply("parseRailsError",
          <<parseRailsError(ErrorLine(given[2], given[3], given[4], given[5], given[6]))>>)

\* Lines 195-236 of execute() on the given output of a command whose
\* polling ended at the first quiet period: the outcome, and the cleaned
\* output it was made from.
applyOutcomeOf ==
    \E command \in Commands :
        Apply("outcomeOf",
              <<outcomeOf(command, given[2], 0, STABILIZE_AFTER + CHECK_INTERVAL,
                          2 * (STABILIZE_AFTER + CHECK_INTERVAL) > timeout, timeout),
                cleanOutputOf(command, given[2], 0)>>)

NextFunctions ==
    \/ applyHealthStatus
    \/ applyCleanTerminalOutput
    \/ applyParseRailsError
    \/ applyOutcomeOf

SpecFunctions == InitFunctions /\ [][NextFunctions]_vars

(***************************************************************************)
(* Properties.                                                             *)
(***************************************************************************)
\* An execute() call that got past the guard and whose write did not throw.
Ran(x) == x.pc = "done" /\ x.target # 0 /\ x.result # FaultResult(WriteError)

\* Does the output of result r begin with the timeout warning?
WarnsOfTimeout(r) ==
    /\ Len(r.output) >= Len(TimeoutWarning(timeout))
    /\ SubSeq(r.output, 1, Len(TimeoutWarning(timeout))) = TimeoutWarning(timeout)

\* C1: in every reachable state the ready query is true if and only if a
\* readiness transition has occurred and neither a stop() call nor a child
\* exit has occurred since the most recent one.
C1_ReadyIffReadySince == ready = readySince

\* C2: every child that is alive is the one the handle refers to, so at most
\* one child is alive at any moment.
C2_OnlyTheHandleChildAlive == \A c \in StartIds : child[c] = "alive" => process = c

\* C3: an execute() called while the session is not ready returns the
\* not-ready result (success false, empty output, 'Console is not ready'),
\* writes nothing to any child and leaves the buffer, the ready flag and the
\* handle unchanged.
C3_NotReadyExecute ==
    [][\A e \in ExecIds :
          (execs[e].pc = "idle" /\ execs'[e].pc # "idle" /\ ~isReady) =>
              /\ execs'[e].pc = "done"
              /\ execs'[e].result.success = FALSE
              /\ execs'[e].result.output = <<>>
              /\ execs'[e].result.error = "Console is not ready"
              /\ UNCHANGED <<writes, outputBuffer, isReady, process>>]_vars

\* C3 witness: an execute() called while a start() was still polling (handle
\* set, not ready) has returned the not-ready result.
C3_Witness ==
    \E e \in ExecIds :
        /\ execs[e].pc = "done"
        /\ execs[e].target = 0
        /\ execs[e].result = NotReadyResult
        /\ process # 0
        /\ ~isReady
        /\ \A c \in StartIds : writes[c] = <<>>

\* C4: a start() resolves only on a poll tick on which the Readiness
\* Detector reports ready for the buffer; when it resolves the ready flag is
\* true and the buffer is empty; and the ready flag never goes from false to
\* true except on such a tick.
C4_ResolvesOnReadyTick ==
    [][/\ \A s \in StartIds :
             (starts[s].settled # "resolved" /\ starts'[s].settled = "resolved") =>
                 /\ starts[s].settled = "pending"
                 /\ starts[s].interval
                 /\ checkReady(outputBuffer)
                 /\ isReady'
                 /\ outputBuffer' = <<>>
       /\ (~isReady /\ isReady') =>
             \E s \in StartIds :
                 starts[s].settled = "pending" /\ starts'[s].settled = "resolved"]_vars

\* C4 witness: a start() has resolved, the session is ready, the buffer empty.
C4_Witness ==
    \E s \in StartIds :
        /\ starts[s].settled = "resolved"
        /\ starts[s].polled
        /\ isReady
        /\ outputBuffer = <<>>

\* C5: when the startup timer of a start() that has not resolved fires, the
\* start() rejects, and by then the child it spawned has been killed, the
\* handle is cleared, the ready flag is false and its polling is cancelled.
C5_StartupTimeoutRejects ==
    [][\A s \in StartIds :
          (starts[s].timer /\ ~starts'[s].timer /\ starts[s].settled = "pending") =>
              /\ starts'[s].settled = "rejected"
              /\ child'[s] # "alive"
              /\ process' = 0
              /\ ~isReady'
              /\ ~starts'[s].interval]_vars

\* C6: after the exit handler of the child the handle refers to has run, the
\* ready flag is false and the handle is cleared.
C6_ExitClearsHandle ==
    [][\A c \in StartIds :
          (child[c] # "gone" /\ child'[c] = "gone" /\ process = c) =>
              (~isReady' /\ process' = 0)]_vars

\* C7: stop() with a handle kills the child, clears the handle and sets
\* ready to false; stop() without a handle changes nothing of the manager;
\* after any stop() there is no handle, so a second stop() in a row changes
\* nothing.
C7_StopIdempotent ==
    [][stop =>
          /\ process # 0 => (child'[process] # "alive" /\ ~isReady')
          /\ process = 0 =>
                UNCHANGED <<process, isReady, outputBuffer, timeout, child, writes,
                            starts, execs>>
          /\ process' = 0
          /\ \A c \in StartIds : c # process => child'[c] = child[c]
          /\ UNCHANGED <<outputBuffer, timeout, writes, starts, execs>>]_vars

\* C7 witness: stop() has killed a child and no handle is left.
C7_Witness ==
    /\ process = 0
    /\ ~isReady
    /\ \E c \in StartIds : child[c] = "killed"

\* C8: for every execute() on a ready session that raised no fault, success
\* is true exactly when no error pattern was recognised in the cleaned output
\* and the call did not time out.
C8_SuccessIffCleanAndInTime ==
    \A e \in ExecIds :
        Ran(execs[e]) =>
            (execs[e].result.success = (~execs[e].detected /\ execs[e].elapsed < timeout))

\* C8 witness: an execute() has returned success, and it had polled.
C8_Witness ==
    \E e \in ExecIds :
        Ran(execs[e]) /\ execs[e].result.success /\ execs[e].elapsed > 0

\* C9 as stated: if output arrived once and then none for at least 500 ms
\* before the timeout elapsed, execute() resolves before the timeout, the
\* result carries no timeout mark and success is decided by the error pattern
\* alone.
C9_QuietBeforeTimeoutCompletes ==
    \A e \in ExecIds :
        (/\ Ran(execs[e])
         /\ execs[e].arrivals = 1
         /\ execs[e].quietInTime
         /\ ~execs[e].disturbed) =>
            /\ execs[e].wall < timeout
            /\ ~WarnsOfTimeout(execs[e].result)
            /\ execs[e].result.error # TimeoutError
            /\ execs[e].result.success = ~execs[e].detected

\* C9 as amended: if the loop ends because a quiet period, begun after more
\* than 1000 ms of counted polling and before the counted polling time has
\* reached the timeout, saw the buffer length unchanged, the result carries
\* no timeout mark and success is decided by the error pattern alone.
C9_StableBeforeCountedTimeout ==
    \A e \in ExecIds :
        (Ran(execs[e]) /\ execs[e].broke /\ execs[e].elapsed < timeout) =>
            /\ execs[e].elapsed > STABILIZE_AFTER
            /\ ~WarnsOfTimeout(execs[e].result)
            /\ execs[e].result.error # TimeoutError
            /\ execs[e].result.success = ~execs[e].detected

\* C9 witness: output arrived once, the quiet period found it stable before
\* the counted time reached the timeout, and the call returned 500 ms of real
\* time after the timeout.
C9_Witness ==
    \E e \in ExecIds :
        /\ Ran(execs[e])
        /\ execs[e].broke
        /\ execs[e].elapsed < timeout
        /\ execs[e].arrivals = 1
        /\ execs[e].wall > timeout

\* C10 as stated: if new output kept arriving at intervals shorter than
\* 500 ms until the timeout was reached, the output begins with the timeout
\* warning, success is false and the error is 'Command execution timeout',
\* whatever the output contains.
C10_SteadyOutputTimesOut ==
    \A e \in ExecIds :
        (Ran(execs[e]) /\ execs[e].steady /\ execs[e].wall >= timeout) =>
            /\ WarnsOfTimeout(execs[e].result)
            /\ execs[e].result.success = FALSE
            /\ execs[e].result.error = "Command execution timeout"

\* C10 as amended: if the counted polling time reached the timeout, the
\* output is the timeout warning followed by the partial output (formatted
\* when an error pattern was recognised), success is false, and the error is
\* 'Rails error detected in output' when an error pattern was recognised and
\* 'Command execution timeout' otherwise.
C10_CountedTimeoutResult ==
    \A e \in ExecIds :
        (Ran(execs[e]) /\ execs[e].elapsed >= timeout) =>
            /\ execs[e].result.output = TimeoutWarning(timeout) \o execs[e].body
            /\ execs[e].result.success = FALSE
            /\ execs[e].result.error =
                  IF execs[e].detected THEN "Rails error detected in output"
                  ELSE "Command execution timeout"

\* C10 witness: output kept arriving until the timeout and held an error
\* pattern.
C10_Witness ==
    \E e \in ExecIds :
        /\ Ran(execs[e])
        /\ execs[e].elapsed >= timeout
        /\ execs[e].steady
        /\ execs[e].detected

\* C11: every execute() on a ready session returns no later than the
\* configured timeout plus one 100 ms poll interval and one 500 ms quiet
\* period of real time after the command was written.
C11_ReturnsWithinTimeout ==
    \A e \in ExecIds :
        Ran(execs[e]) => execs[e].wall <= timeout + CHECK_INTERVAL + QUIET_PERIOD

\* C12: when the write of the command throws, execute() returns success
\* false, empty output and the fault's message as error, and leaves the ready
\* flag, the handle and the buffer as they were.
C12_FaultBecomesResult ==
    [][\A e \in ExecIds :
          (execs[e].pc = "idle" /\ execs'[e].pc = "done" /\ execs'[e].target # 0) =>
              /\ execs'[e].result.success = FALSE
              /\ execs'[e].result.output = <<>>
              /\ execs'[e].result.error = WriteError
              /\ UNCHANGED <<isReady, process, outputBuffer, writes>>]_vars

\* C12 witness: an execute() on a ready session whose child was gone has
\* returned the fault as a result.
C12_Witness ==
    \E e \in ExecIds :
        /\ execs[e].pc = "done"
        /\ execs[e].target # 0
        /\ execs[e].result.error = WriteError
        /\ isReady

\* C13: after every data event the buffer holds at most 1,000,000
\* characters; if the old buffer followed by the data is longer than that, the
\* buffer is exactly its last 500,000 characters, otherwise it is the old
\* buffer followed by the data.
C13_BufferBounded ==
    [][nData' # nData =>
          /\ StrLen(outputBuffer') <= MAX_BUFFER_SIZE
          /\ \E chunk \in StreamChunks :
                IF StrLen(outputBuffer) + StrLen(chunk) > MAX_BUFFER_SIZE
                THEN /\ StrLen(outputBuffer') = RETAINED_TAIL
                     /\ outputBuffer' = SliceFromEnd(Concat(outputBuffer, chunk), RETAINED_TAIL)
                ELSE outputBuffer' = Concat(outputBuffer, chunk)]_vars

\* C13 witness: the buffer has been cut to its last 500,000 characters.
C13_Witness == nData >= 2 /\ StrLen(outputBuffer) = RETAINED_TAIL

\* C14: a poll tick that finds the numbered prompt 'irb(main):001:0> ' in the
\* buffer reports ready: the start() resolves and the ready flag is set.
C14_NumberedPromptIsReady ==
    [][\A s \in StartIds :
          (pollTick(s) /\ Includes(outputBuffer, NumberedPromptText)) =>
              (starts'[s].settled = "resolved" /\ isReady')]_vars

\* C19: when the polling of an execute() ends, the slice of the buffer its
\* result is derived from is exactly what the data events have delivered
\* since the command was written, in order and without loss.
C19_SliceIsWhatWasEmitted ==
    [][\A e \in ExecIds :
          (InFlight(execs[e]) /\ execs'[e].pc = "done") =>
              Slice(outputBuffer, execs[e].originalBufferLength) = execs[e].emitted]_vars

\* C20: a start() made by restart(), or made once every earlier child has
\* exited, resolves only if the child it spawned has emitted output while
\* it was polling: text an earlier session left in the buffer does not make
\* it ready.
C20_ReadyFromOwnChildOnly ==
    [][\A s \in StartIds :
          (/\ starts[s].settled = "pending"
           /\ starts'[s].settled = "resolved"
           /\ \/ starts[s].via = "restart"
              \/ \A c \in StartIds \ {s} : child[c] \in {"unborn", "gone"}) =>
              starts[s].heard]_vars

\* C15: when the disconnect tool has returned, no child of the manager is
\* alive and the manager is not ready, whatever state it was called in.
C15_DisconnectStopsProcess ==
    [][disconnect_ruby_console =>
          /\ \A c \in StartIds : child'[c] # "alive"
          /\ ~isReady'
          /\ process' = 0]_vars

\* The function f has been applied to the given argument.
Applied(f) == given # <<>> /\ given[1] = f /\ got # <<>>

\* C16: the health check says HEALTHY when the test command succeeds in
\* under 5 s, DEGRADED when it succeeds in 5 to 10 s, and UNHEALTHY, as an
\* error, when it fails or takes more than 10 s.
C16_HealthClassification ==
    Applied("healthStatus") =>
        got = IF ~given[2] \/ given[3] > 10000 THEN <<"UNHEALTHY", TRUE>>
              ELSE IF given[3] >= 5000 THEN <<"DEGRADED", FALSE>>
              ELSE <<"HEALTHY", FALSE>>

\* C17: normalizing a normalized text changes nothing.
C17_NormalizerIdempotent ==
    Applied("cleanTerminalOutput") => got[2] = got[1]

\* C18: of the error line (C):N:in 'M': MSG with an optional (KIND), the
\* parsed record has file C, line N, method M, the whole trimmed MSG as its
\* message, and the type KIND if there is one, otherwise C.
C18_StructuredErrorRecord ==
    Applied("parseRailsError") =>
        /\ got[1].found
        /\ got[1].file = Txt(given[2])
        /\ got[1].line = ParseInt(Txt(given[3]))
        /\ got[1].method = Txt(given[4])
        /\ got[1].message = Trim(Txt(given[5]))
        /\ got[1].type = Txt(IF given[6] # <<>> THEN given[6] ELSE given[2])

\* C21: a ready manager holds the handle of a child; stop() during the
\* readiness poll of an earlier start() does not end in ready without one.
C21_ReadyHoldsHandle == isReady => process # 0

\* C22: the startup timeout of a start() stops no child but the one that
\* start() spawned, also when it fires after the start() has resolved.
C22_TimeoutStopsOwnChildOnly ==
    [][\A s \in StartIds :
          (starts[s].timer /\ ~starts'[s].timer /\ starts[s].settled = "resolved") =>
              \A c \in StartIds \ {s} : child'[c] = child[c]]_vars

\* C24: the exit of a child that was killed and replaced leaves the new
\* session ready.
C24_StaleExitKeepsReady ==
    [][\A c \in StartIds :
          (/\ child[c] = "killed" /\ child'[c] = "gone"
           /\ process # 0 /\ process # c /\ child[process] = "alive"
           /\ isReady) => isReady']_vars

\* C27: an execute() whose child was stopped or exited between the write
\* and the result does not return success.
C27_NoSuccessAfterStop ==
    [][\A e \in ExecIds :
          (/\ InFlight(execs[e]) /\ execs'[e].pc = "done"
           /\ child[execs[e].target] # "alive") => ~execs'[e].result.success]_vars

\* A call of execute() on a ready session while an earlier call is polling.
SecondWhilePolling ==
    /\ \E o \in ExecIds : InFlight(execs[o])
    /\ \E e \in ExecIds : execs[e].pc = "idle" /\ execs'[e].pc # "idle"

C28_RecognisedErrorFails ==
    Applied("outcomeOf") =>
        (parseRailsError(got[2]).found =>
            /\ got[1].result.success = FALSE
            /\ got[1].body = formatRailsError(got[2]))

\* C23: every start() settles within its startup window: once its startup
\* timeout has fired it is resolved or rejected, also when two overlap.
C23_SettledWithinStartupWindow ==
    \A s \in StartIds : starts[s].settled = "pending" => starts[s].timer

\* C30: every execute() returns a result, whatever the child does: silent,
\* printing without end, exiting, or stopped while the call is polling.
C30_ExecuteReturns ==
    \A e \in ExecIds : InFlight(execs[e]) ~> execs[e].pc = "done"

C30_Witness ==
    \E e \in ExecIds :
        /\ Ran(execs[e])
        /\ child[execs[e].target] # "alive"
        /\ execs[e].arrivals > 0

====
